---- MODULE Spec2Model ----
(***************************************************************************)
(* Model of libsvgdom: the text normalization pass (src/parser/text.rs),   *)
(* the attribute default check and the attribute writer                    *)
(* (src/attribute.rs), qualified names (src/name.rs), path parsing         *)
(* (src/types/path/parser.rs) and the link index kept in NodeData          *)
(* (src/lib.rs).                                                           *)
(*                                                                         *)
(* A document is a tree whose nodes are numbered 1..N in document order    *)
(* (pre-order); node 0 is the Root.  Strings are sequences of bytes.       *)
(***************************************************************************)
EXTENDS Integers, Sequences, FiniteSets, TLC

VARIABLES
    node_type,      \* [1..N -> NodeType]             NodeData.node_type
    parent,         \* [1..N -> 0..N]                 tree edges, 0 is the Root
    attributes,     \* [1..N -> Seq(Attribute)]       NodeData.attributes
    text,           \* [1..N -> Seq(byte)]            NodeData.text
    attributes0,    \* attributes of the parsed document, before prepare_text
    text0,          \* text payloads of the parsed document, before prepare_text
    attributes1,    \* attributes after the first prepare_text
    text1,          \* text payloads after the first prepare_text
    memo,           \* attributes at the end of _prepare_text, before the retain
    removed,        \* bytes removed by remove_first / remove_last so far
    panicked,       \* a remove_first / remove_last hit an empty string
    runs,           \* number of completed prepare_text calls
    trimIn,         \* trim_text: the string passed in
    trimMode,       \* trim_text: the XmlSpace passed in
    trimOut,        \* trim_text: the string left in place
    trimDone,       \* trim_text has been applied
    attribute,      \* the Attribute under test
    fromDefault,    \* attribute was made by Attribute::default
    isDefault,      \* what check_is_default returned for attribute
    linked_nodes,   \* [1..N -> Seq(node)]             NodeData.linked_nodes
    ops,            \* number of attribute operations applied
    lastOp,         \* the last attribute operation: kind, node, value replaced
    opt,            \* the WriteOptions passed to write_buf_opt
    buf0,           \* the buffer before write_buf_opt
    buf,            \* the buffer
    branch,         \* the value branch write_buf_opt took
    hasId,          \* the last has_id query and its answers
    tokens,         \* the tokens the path tokenizer yields
    path            \* the result of Path::from_span

docVars == <<node_type, parent, attributes, text, attributes0, text0,
             attributes1, text1, memo, removed, panicked, runs>>
trimVars == <<trimIn, trimMode, trimOut, trimDone>>
attrVars == <<attribute, fromDefault, isDefault>>
linkVars == <<linked_nodes, ops, lastOp>>
writeVars == <<opt, buf0, buf, branch, hasId>>
pathVars == <<tokens, path>>
vars == <<docVars, trimVars, attrVars, linkVars, writeVars, pathVars>>

(***************************************************************************)
(* Bounds and byte values                                                  *)
(***************************************************************************)
MaxNodes == 3
MaxLen == 2
MaxRuns == 2
MaxTrimLen == 5
MaxOps == 3
LinkNodes == 2

SP == 32
TAB == 9
LF == 10
CR == 13

Letters == {97}

XmlSpace == {"Default", "Preserve"}

RECURSIVE SeqsUpTo(_, _)
SeqsUpTo(S, n) ==
    IF n = 0 THEN {<<>>}
    ELSE LET shorter == SeqsUpTo(S, n - 1)
         IN  shorter \cup {Append(s, c) : s \in {t \in shorter : Len(t) = n - 1}, c \in S}

(***************************************************************************)
(* Sequence helpers                                                        *)
(***************************************************************************)
RemoveAt(s, i) == [k \in 1..(Len(s) - 1) |-> IF k < i THEN s[k] ELSE s[k + 1]]

RECURSIVE SortedSeq(_)
SortedSeq(S) ==
    IF S = {} THEN <<>>
    ELSE LET m == CHOOSE x \in S : \A y \in S : x <= y
         IN  <<m>> \o SortedSeq(S \ {m})

(***************************************************************************)
(* Tree navigation (Node::children, first_child, descendants, parent)      *)
(***************************************************************************)
NodeIds == DOMAIN node_type

RECURSIVE IsAncestor(_, _)
IsAncestor(a, n) ==
    IF n = 0 THEN FALSE
    ELSE parent[n] = a \/ IsAncestor(a, parent[n])

children(p) == SortedSeq({n \in NodeIds : parent[n] = p})

first_child(p) == LET c == children(p) IN IF c = <<>> THEN 0 ELSE c[1]

descendants(p) == SortedSeq({n \in NodeIds : IsAncestor(p, n)})

(***************************************************************************)
(* Attributes                                                              *)
(***************************************************************************)
StringValue(s) == [type |-> "String", s |-> s]

NoValue == [type |-> "Absent"]

IndexOf(attrs, id) ==
    LET hits == {k \in 1..Len(attrs) : attrs[k].name = id}
    IN  IF hits = {} THEN 0 ELSE CHOOSE k \in hits : \A j \in hits : k <= j

get_value(attrs, id) ==
    IF IndexOf(attrs, id) = 0 THEN NoValue ELSE attrs[IndexOf(attrs, id)].value

set_attribute(attrs, attr) ==
    IF IndexOf(attrs, attr.name) = 0 THEN Append(attrs, attr)
    ELSE [attrs EXCEPT ![IndexOf(attrs, attr.name)] = attr]

retain_visible(attrs) == SelectSeq(attrs, LAMBDA a : a.visible = TRUE)

(***************************************************************************)
(* StrTrim for String                                                      *)
(***************************************************************************)
\* A string under edit: its bytes, the bytes removed so far, and whether a
\* removal was attempted on an empty string.
remove_first(t) ==
    IF t.bytes = <<>> THEN [t EXCEPT !.panicked = TRUE]
    ELSE [bytes |-> Tail(t.bytes), removed |-> t.removed \cup {t.bytes[1]}, panicked |-> t.panicked]

remove_last(t) ==
    IF t.bytes = <<>> THEN [t EXCEPT !.panicked = TRUE]
    ELSE [bytes |-> SubSeq(t.bytes, 1, Len(t.bytes) - 1),
          removed |-> t.removed \cup {t.bytes[Len(t.bytes)]}, panicked |-> t.panicked]

(***************************************************************************)
(* trim_text                                                               *)
(***************************************************************************)
\* the predicate p is given as the set of bytes it accepts
replace_if(data, p, new) == [k \in 1..Len(data) |-> IF data[k] \in p THEN new ELSE data[k]]

\* mutant: the position advances after a removal as well
RECURSIVE ConsolidateLoop_Advance(_, _)
ConsolidateLoop_Advance(bytes, pos) ==
    IF pos < Len(bytes) - 1
    THEN IF bytes[pos + 1] = SP /\ bytes[pos + 2] = SP
         THEN ConsolidateLoop_Advance(RemoveAt(bytes, pos + 1), pos + 1)
         ELSE ConsolidateLoop_Advance(bytes, pos + 1)
    ELSE bytes

\* the loop of the Default branch; pos is the 0-based index of the code
RECURSIVE ConsolidateLoop(_, _)
ConsolidateLoop(bytes, pos) ==
    IF pos < Len(bytes) - 1
    THEN IF bytes[pos + 1] = SP /\ bytes[pos + 2] = SP
         THEN ConsolidateLoop(RemoveAt(bytes, pos + 1), pos)
         ELSE ConsolidateLoop(bytes, pos + 1)
    ELSE bytes

\* mutant: the '\r' of a pair is overwritten, not removed
RECURSIVE CrLfLoop_Overwrite(_, _)
CrLfLoop_Overwrite(bytes, pos) ==
    IF pos < Len(bytes) - 1
    THEN IF bytes[pos + 1] = CR /\ bytes[pos + 2] = LF
         THEN CrLfLoop_Overwrite([bytes EXCEPT ![pos + 1] = SP], pos + 1)
         ELSE CrLfLoop_Overwrite(bytes, pos + 1)
    ELSE bytes

\* the loop of the Preserve branch
RECURSIVE CrLfLoop(_, _)
CrLfLoop(bytes, pos) ==
    IF pos < Len(bytes) - 1
    THEN IF bytes[pos + 1] = CR /\ bytes[pos + 2] = LF
         THEN CrLfLoop([RemoveAt(bytes, pos + 1) EXCEPT ![pos + 1] = SP], pos + 1)
         ELSE CrLfLoop(bytes, pos + 1)
    ELSE bytes

trim_text(bytes, xmlspace) ==
    IF xmlspace = "Default"
    THEN LET retained == SelectSeq(bytes, LAMBDA c : c # LF /\ c # CR)
             replaced == replace_if(retained, {TAB}, SP)
         IN  IF Len(replaced) > 1 THEN ConsolidateLoop(replaced, 0) ELSE replaced
    ELSE LET joined == IF Len(bytes) > 1 THEN CrLfLoop(bytes, 0) ELSE bytes
         IN  replace_if(joined, {TAB, LF, CR}, SP)

(***************************************************************************)
(* get_xmlspace / set_xmlspace                                             *)
(* A document under edit is a record d with fields attributes, text,       *)
(* removed and panicked.                                                   *)
(***************************************************************************)
set_xmlspace(d, node, xmlspace) ==
    LET xmlspace_str == IF xmlspace = "Default" THEN "default" ELSE "preserve"
        attr == [name |-> "XmlSpace", value |-> StringValue(xmlspace_str), visible |-> FALSE]
    IN  [d EXCEPT !.attributes[node] = set_attribute(@, attr)]

\* returns the document (possibly with the memoized attribute) and the mode
get_xmlspace(d, node, default) ==
    LET v == get_value(d.attributes[node], "XmlSpace")
    IN  IF v.type = "String"
        THEN [d |-> d, x |-> IF v.s = "preserve" THEN "Preserve" ELSE "Default"]
        ELSE [d |-> set_xmlspace(d, node, default), x |-> default]

(***************************************************************************)
(* prepare_text_children                                                   *)
(***************************************************************************)
\* Node::text_mut followed by an in-place edit of the payload
edit_text(d, node, op) ==
    LET s == [bytes |-> d.text[node], removed |-> d.removed, panicked |-> d.panicked]
        t == IF op = "remove_first" THEN remove_first(s) ELSE remove_last(s)
    IN  [d EXCEPT !.text[node] = t.bytes, !.removed = t.removed, !.panicked = t.panicked]

NoByte == -1
first_byte(bytes) == IF bytes = <<>> THEN NoByte ELSE bytes[1]
last_byte(bytes) == IF bytes = <<>> THEN NoByte ELSE bytes[Len(bytes)]

\* mutant: the payload of a Comment is trimmed like that of a Text node
RECURSIVE TrimDescendants_Comments(_, _, _)
TrimDescendants_Comments(d, nodes, xmlspace) ==
    IF nodes = <<>> THEN d
    ELSE LET child == Head(nodes)
         IN  IF node_type[child] # "Element"
             THEN LET r == get_xmlspace(d, parent[child], xmlspace)
                      trimmed == [r.d EXCEPT !.text[child] = trim_text(@, r.x)]
                  IN  TrimDescendants_Comments(trimmed, Tail(nodes), xmlspace)
             ELSE TrimDescendants_Comments(d, Tail(nodes), xmlspace)

\* mutant: every descendant is trimmed in the mode of the element walked
RECURSIVE TrimDescendants_OneMode(_, _, _)
TrimDescendants_OneMode(d, nodes, xmlspace) ==
    IF nodes = <<>> THEN d
    ELSE LET child == Head(nodes)
         IN  IF node_type[child] = "Text"
             THEN LET r == get_xmlspace(d, parent[child], xmlspace)
                      trimmed == [r.d EXCEPT !.text[child] = trim_text(@, xmlspace)]
                  IN  TrimDescendants_OneMode(trimmed, Tail(nodes), xmlspace)
             ELSE TrimDescendants_OneMode(d, Tail(nodes), xmlspace)

\* 'Trim all descendant text nodes.'
RECURSIVE TrimDescendants(_, _, _)
TrimDescendants(d, nodes, xmlspace) ==
    IF nodes = <<>> THEN d
    ELSE LET child == Head(nodes)
         IN  IF node_type[child] = "Text"
             THEN LET r == get_xmlspace(d, parent[child], xmlspace)
                      trimmed == [r.d EXCEPT !.text[child] = trim_text(@, r.x)]
                  IN  TrimDescendants(trimmed, Tail(nodes), xmlspace)
             ELSE TrimDescendants(d, Tail(nodes), xmlspace)

\* mutant: a one-byte string is cleared whatever the byte
TrimSingle_ClearAny(d, node, xmlspace) ==
    IF xmlspace = "Default"
    THEN IF Len(d.text[node]) = 0 THEN d
         ELSE IF Len(d.text[node]) = 1
         THEN [d EXCEPT !.text[node] = <<>>]
         ELSE LET c1 == d.text[node][1]
                  c2 == d.text[node][Len(d.text[node])]
                  a  == IF c1 = SP THEN edit_text(d, node, "remove_first") ELSE d
              IN  IF c2 = SP THEN edit_text(a, node, "remove_last") ELSE a
    ELSE d

\* mutant: the trailing space is looked at only when no leading space was removed
TrimSingle_ElseIf(d, node, xmlspace) ==
    IF xmlspace = "Default"
    THEN IF Len(d.text[node]) = 0 THEN d
         ELSE IF Len(d.text[node]) = 1
         THEN IF d.text[node][1] = SP THEN [d EXCEPT !.text[node] = <<>>] ELSE d
         ELSE LET c1 == d.text[node][1]
                  c2 == d.text[node][Len(d.text[node])]
              IN  IF c1 = SP THEN edit_text(d, node, "remove_first")
                  ELSE IF c2 = SP THEN edit_text(d, node, "remove_last")
                  ELSE d
    ELSE d

\* 'Process element with a single text node child.'
TrimSingle(d, node, xmlspace) ==
    IF xmlspace = "Default"
    THEN IF Len(d.text[node]) = 0 THEN d
         ELSE IF Len(d.text[node]) = 1
         THEN IF d.text[node][1] = SP THEN [d EXCEPT !.text[node] = <<>>] ELSE d
         ELSE LET c1 == d.text[node][1]
                  c2 == d.text[node][Len(d.text[node])]
                  a  == IF c1 = SP THEN edit_text(d, node, "remove_first") ELSE d
              IN  IF c2 = SP THEN edit_text(a, node, "remove_last") ELSE a
    ELSE d

\* mutant: the space shared by two nodes is taken from the left node
TrimPair_LeftNode(d, nodes, i, xmlspace) ==
    LET len   == Len(nodes) - 1
        node1 == nodes[i + 1]
        node2 == nodes[i + 2]
        r1 == get_xmlspace(d, parent[node1], xmlspace)
        r2 == get_xmlspace(r1.d, parent[node2], xmlspace)
        xmlspace1 == r1.x
        xmlspace2 == r2.x
        c1 == first_byte(r2.d.text[node1])
        c2 == last_byte(r2.d.text[node1])
        c3 == first_byte(r2.d.text[node2])
        c4 == last_byte(r2.d.text[node2])
        a  == IF xmlspace1 = "Default" /\ xmlspace2 = "Default" /\ c2 = SP /\ c2 = c3
              THEN edit_text(r2.d, node1, "remove_last")
              ELSE r2.d
        is_first == i = 0
        is_last  == i = len - 1
    IN  IF is_first /\ c1 = SP /\ xmlspace1 = "Default" /\ a.text[node1] # <<>>
        THEN edit_text(a, node1, "remove_first")
        ELSE IF is_last /\ c4 = SP /\ a.text[node2] # <<>> /\ xmlspace2 = "Default"
        THEN edit_text(a, node2, "remove_last")
        ELSE a

\* mutant: the trailing space of the last node is removed without looking
\* whether the node has been emptied
TrimPair_NoEmptyCheck(d, nodes, i, xmlspace) ==
    LET len   == Len(nodes) - 1
        node1 == nodes[i + 1]
        node2 == nodes[i + 2]
        r1 == get_xmlspace(d, parent[node1], xmlspace)
        r2 == get_xmlspace(r1.d, parent[node2], xmlspace)
        xmlspace1 == r1.x
        xmlspace2 == r2.x
        c1 == first_byte(r2.d.text[node1])
        c2 == last_byte(r2.d.text[node1])
        c3 == first_byte(r2.d.text[node2])
        c4 == last_byte(r2.d.text[node2])
        a  == IF xmlspace1 = "Default" /\ xmlspace2 = "Default" /\ c2 = SP /\ c2 = c3
              THEN edit_text(r2.d, node2, "remove_first")
              ELSE r2.d
        is_first == i = 0
        is_last  == i = len - 1
    IN  IF is_first /\ c1 = SP /\ xmlspace1 = "Default"
        THEN edit_text(a, node1, "remove_first")
        ELSE IF is_last /\ c4 = SP /\ xmlspace2 = "Default"
        THEN edit_text(a, node2, "remove_last")
        ELSE a

\* one iteration of the pair walk; i is the 0-based index of the code
TrimPair(d, nodes, i, xmlspace) ==
    LET len   == Len(nodes) - 1
        node1 == nodes[i + 1]
        node2 == nodes[i + 2]
        r1 == get_xmlspace(d, parent[node1], xmlspace)
        r2 == get_xmlspace(r1.d, parent[node2], xmlspace)
        xmlspace1 == r1.x
        xmlspace2 == r2.x
        c1 == first_byte(r2.d.text[node1])
        c2 == last_byte(r2.d.text[node1])
        c3 == first_byte(r2.d.text[node2])
        c4 == last_byte(r2.d.text[node2])
        a  == IF xmlspace1 = "Default" /\ xmlspace2 = "Default" /\ c2 = SP /\ c2 = c3
              THEN edit_text(r2.d, node2, "remove_first")
              ELSE r2.d
        is_first == i = 0
        is_last  == i = len - 1
    IN  IF is_first /\ c1 = SP /\ xmlspace1 = "Default"
        THEN edit_text(a, node1, "remove_first")
        ELSE IF is_last /\ c4 = SP /\ a.text[node2] # <<>> /\ xmlspace2 = "Default"
        THEN edit_text(a, node2, "remove_last")
        ELSE a

RECURSIVE PairLoop(_, _, _, _)
PairLoop(d, nodes, i, xmlspace) ==
    IF i < Len(nodes) - 1
    THEN PairLoop(TrimPair(d, nodes, i, xmlspace), nodes, i + 1, xmlspace)
    ELSE d

prepare_text_children(d, p, xmlspace) ==
    LET trimmed == TrimDescendants(d, descendants(p), xmlspace)
        nodes   == SelectSeq(descendants(p), LAMBDA n : node_type[n] = "Text")
    IN  IF Len(nodes) = 1
        THEN TrimSingle(trimmed, nodes[1], xmlspace)
        ELSE PairLoop(trimmed, nodes, 0, xmlspace)

(***************************************************************************)
(* _prepare_text / prepare_text                                            *)
(***************************************************************************)
\* the for loop of _prepare_text over the remaining element children 'kids';
\* xmlspace is the loop-carried local of the code
RECURSIVE PrepareLoop(_, _, _)
PrepareLoop(d, kids, xmlspace) ==
    IF kids = <<>> THEN d
    ELSE LET node == Head(kids)
             r == get_xmlspace(d, node, xmlspace)
             sub == IF first_child(node) # 0 /\ node_type[first_child(node)] = "Text"
                    THEN prepare_text_children(r.d, node, r.x)
                    ELSE PrepareLoop(r.d,
                                     SelectSeq(children(node), LAMBDA n : node_type[n] = "Element"),
                                     r.x)
         IN  PrepareLoop(sub, Tail(kids), r.x)

_prepare_text(d, p, parent_xmlspace) ==
    PrepareLoop(d, SelectSeq(children(p), LAMBDA n : node_type[n] = "Element"), parent_xmlspace)

\* mutant: the memoized attributes stay
strip_invisible_Keep(d) == d

strip_invisible(d) ==
    [d EXCEPT !.attributes = [n \in NodeIds |->
        IF node_type[n] = "Element" THEN retain_visible(d.attributes[n])
        ELSE d.attributes[n]]]

\* the whole pass; the attributes before the final retain are kept in 'memo'
prepare_text(d) ==
    LET walked == _prepare_text(d, 0, "Default")
    IN  [out |-> strip_invisible(walked), memo |-> walked.attributes]

(***************************************************************************)
(* The parsed documents the pass is applied to                             *)
(***************************************************************************)
Payloads == SeqsUpTo({SP} \cup Letters, MaxLen)

CommentPayloads == {<<SP, 97, SP>>}

VisibleAttr(id, s) == [name |-> id, value |-> StringValue(s), visible |-> TRUE]

\* attribute lists the parser can produce for an element
AttributeChoices ==
    { <<VisibleAttr("Fill", "red")>>,
      <<VisibleAttr("XmlSpace", "preserve")>>,
      <<VisibleAttr("Fill", "red"), VisibleAttr("XmlSpace", "default")>> }

NodeType == {"Element", "Comment", "Text"}

RECURSIVE OnPath(_, _, _)
OnPath(pa, a, n) ==
    IF n = a THEN TRUE
    ELSE IF n = 0 THEN FALSE
    ELSE OnPath(pa, a, pa[n])

\* one root element; nodes are numbered in document order, so the parent of
\* node n is the node before it or one of that node's ancestors
WellFormed(nt, pa) ==
    /\ nt[1] = "Element"
    /\ pa[1] = 0
    /\ \A n \in DOMAIN nt : pa[n] < n
    /\ \A n \in DOMAIN nt \ {1} :
          /\ pa[n] \in 1..(n - 1)
          /\ nt[pa[n]] = "Element"
          /\ OnPath(pa, pa[n], n - 1)

\* <text>Text <tspan> text </tspan> text</text>
RoundTripDocument ==
    [nt |-> <<"Element", "Text", "Element", "Text", "Text">>,
     pa |-> <<0, 1, 1, 3, 1>>,
     at |-> << <<>>, <<>>, <<>>, <<>>, <<>> >>,
     tx |-> << <<>>, <<84, 101, 120, 116, 32>>, <<>>, <<32, 116, 101, 120, 116, 32>>,
               <<32, 116, 101, 120, 116>> >>]

\* <text>\ta \n<tspan xml:space="preserve">\r\n a\tb</tspan><!-- a --> a  </text>
WhitespaceDocument ==
    [nt |-> <<"Element", "Text", "Element", "Text", "Comment", "Text">>,
     pa |-> <<0, 1, 1, 3, 1, 1>>,
     at |-> << <<>>, <<>>, <<VisibleAttr("XmlSpace", "preserve")>>, <<>>, <<>>, <<>> >>,
     tx |-> << <<>>, <<TAB, 97, SP, LF>>, <<>>, <<CR, LF, SP, 97, TAB, 98>>, <<SP, 97, SP>>,
               <<SP, 97, SP, SP>> >>]

\* <text>  a\t </text>
SingleTextDocument ==
    [nt |-> <<"Element", "Text">>,
     pa |-> <<0, 1>>,
     at |-> << <<>>, <<>> >>,
     tx |-> << <<>>, <<SP, SP, 97, TAB, SP>> >>]

\* <text> a<tspan>b </tspan></text>
TwoTextDocument ==
    [nt |-> <<"Element", "Text", "Element", "Text">>,
     pa |-> <<0, 1, 1, 3>>,
     at |-> << <<>>, <<>>, <<>>, <<>> >>,
     tx |-> << <<>>, <<SP, 97>>, <<>>, <<98, SP>> >>]

\* <svg><a xml:space="preserve">a</a><b> b </b></svg>
SiblingDocument ==
    [nt |-> <<"Element", "Element", "Text", "Element", "Text">>,
     pa |-> <<0, 1, 2, 1, 4>>,
     at |-> << <<>>, <<VisibleAttr("XmlSpace", "preserve")>>, <<>>, <<>>, <<>> >>,
     tx |-> << <<>>, <<>>, <<97>>, <<>>, <<SP, 98, SP>> >>]

\* <text><tspan/>a <!-- a --> b</text>
LateTextDocument ==
    [nt |-> <<"Element", "Element", "Text", "Comment", "Text">>,
     pa |-> <<0, 1, 1, 1, 1>>,
     at |-> << <<>>, <<>>, <<>>, <<>>, <<>> >>,
     tx |-> << <<>>, <<>>, <<97, SP>>, <<SP, 97, SP>>, <<SP, 98>> >>]

\* <svg xml:space="preserve"><g xml:space="default"> a<!--  a\t--></g>\tb </svg>
UntouchedDocument ==
    [nt |-> <<"Element", "Element", "Text", "Comment", "Text">>,
     pa |-> <<0, 1, 2, 2, 1>>,
     at |-> << <<VisibleAttr("XmlSpace", "preserve")>>, <<VisibleAttr("XmlSpace", "default")>>,
               <<>>, <<>>, <<>> >>,
     tx |-> << <<>>, <<>>, <<SP, 97>>, <<SP, SP, 97, TAB>>, <<TAB, 98, SP>> >>]

Documents ==
    {RoundTripDocument, WhitespaceDocument, SingleTextDocument, TwoTextDocument,
     SiblingDocument, LateTextDocument, UntouchedDocument}

TrimIdle ==
    /\ trimIn = <<>>
    /\ trimMode = "Default"
    /\ trimOut = <<>>
    /\ trimDone = FALSE

NoAttribute == [name |-> [tag |-> "None"], value |-> NoValue]

AttrIdle ==
    /\ attribute = NoAttribute
    /\ fromDefault = FALSE
    /\ isDefault = "unchecked"

LinkIdle ==
    /\ linked_nodes = <<>>
    /\ ops = 0
    /\ lastOp = [op |-> "none", node |-> 0, old |-> NoValue]

NoQuery == [name |-> [tag |-> "None"], prefix |-> "", id |-> "", result |-> FALSE,
            ref_result |-> FALSE]

WriteIdle ==
    /\ opt = [use_single_quote |-> FALSE, trim_hex_colors |-> FALSE]
    /\ buf0 = <<>>
    /\ buf = <<>>
    /\ branch = "none"
    /\ hasId = NoQuery

NoPath == [ok |-> FALSE, d |-> <<>>]

PathIdle ==
    /\ tokens = <<>>
    /\ path = NoPath

InitDocument(nt, pa, at, tx) ==
    /\ node_type = nt
    /\ parent = pa
    /\ attributes = at
    /\ text = tx
    /\ attributes0 = at
    /\ text0 = tx
    /\ attributes1 = at
    /\ text1 = tx
    /\ memo = at
    /\ removed = {}
    /\ panicked = FALSE
    /\ runs = 0

Init ==
    /\ TrimIdle
    /\ AttrIdle
    /\ WriteIdle
    /\ PathIdle
    /\ LinkIdle
    /\ \/ \E doc \in Documents : InitDocument(doc.nt, doc.pa, doc.at, doc.tx)
       \/ \E n \in 1..MaxNodes :
            \E nt \in [1..n -> NodeType], pa \in [1..n -> 0..(n - 1)] :
               /\ WellFormed(nt, pa)
               /\ \E ea \in [{k \in 1..n : nt[k] = "Element"} -> AttributeChoices],
                     tp \in [{k \in 1..n : nt[k] = "Text"} -> Payloads],
                     cp \in [{k \in 1..n : nt[k] = "Comment"} -> CommentPayloads] :
                    InitDocument(nt, pa,
                        [k \in 1..n |-> IF nt[k] = "Element" THEN ea[k] ELSE <<>>],
                        [k \in 1..n |-> IF nt[k] = "Text" THEN tp[k]
                                        ELSE IF nt[k] = "Comment" THEN cp[k] ELSE <<>>])

\* parser: prepare_text(&doc); the pass may be applied again to its own output
PrepareText ==
    /\ runs < MaxRuns
    /\ LET r == prepare_text([attributes |-> attributes, text |-> text,
                              removed |-> removed, panicked |-> panicked])
       IN  /\ attributes' = r.out.attributes
           /\ text' = r.out.text
           /\ removed' = r.out.removed
           /\ panicked' = r.out.panicked
           /\ memo' = r.memo
           /\ attributes1' = IF runs = 0 THEN r.out.attributes ELSE attributes1
           /\ text1' = IF runs = 0 THEN r.out.text ELSE text1
    /\ runs' = runs + 1
    /\ UNCHANGED <<node_type, parent, attributes0, text0>>
    /\ UNCHANGED <<trimVars, attrVars, linkVars, writeVars, pathVars>>

Next == PrepareText

Spec == Init /\ [][Next]_vars

(***************************************************************************)
(* trim_text applied to one string                                         *)
(***************************************************************************)
TrimAlphabet == {SP, TAB, LF, CR} \cup Letters

DocIdle == InitDocument(<<"Element">>, <<0>>, << <<>> >>, << <<>> >>)

InitTrim ==
    /\ DocIdle
    /\ AttrIdle
    /\ WriteIdle
    /\ PathIdle
    /\ LinkIdle
    /\ trimIn \in SeqsUpTo(TrimAlphabet, MaxTrimLen)
    /\ trimMode \in XmlSpace
    /\ trimOut = <<>>
    /\ trimDone = FALSE

TrimText ==
    /\ ~trimDone
    /\ trimOut' = trim_text(trimIn, trimMode)
    /\ trimDone' = TRUE
    /\ UNCHANGED <<trimIn, trimMode>>
    /\ UNCHANGED <<docVars, attrVars, linkVars, writeVars, pathVars>>

NextTrim == TrimText

SpecTrim == InitTrim /\ [][NextTrim]_vars

(***************************************************************************)
(* Attribute::new / default / check_is_default                             *)
(***************************************************************************)
AttributeId == {"Fill", "Opacity", "Unicode", "XmlSpace"}

Prefixes == {"", "xlink", "xml"}

\* QName::Id(prefix, id) and QName::Name(prefix, name)
QNameId(prefix, id) == [tag |-> "Id", prefix |-> prefix, id |-> id]
QNameName(prefix, name) == [tag |-> "Name", prefix |-> prefix, name |-> name]

QNames ==
    {QNameId(p, id) : p \in Prefixes, id \in AttributeId}
        \cup {QNameName(p, n) : p \in Prefixes, n \in {"fill", "foo"}}

ColorValue(r, g, b) == [type |-> "Color", r |-> r, g |-> g, b |-> b]
NumberValue(n) == [type |-> "Number", n |-> n]

AttributeValues ==
    {ColorValue(0, 0, 0), ColorValue(255, 0, 0), NumberValue(1), NumberValue(0),
     StringValue("black"), [type |-> "None"]}

Some(v) == [some |-> TRUE, v |-> v]
None == [some |-> FALSE]

\* AttributeValue::default_value: the table of defaults of the SVG
\* specification, here for the identifiers of AttributeId
default_value(id) ==
    IF id = "Fill" THEN Some(ColorValue(0, 0, 0))
    ELSE IF id = "Opacity" THEN Some(NumberValue(1))
    ELSE None

\* From<T> for QNameRef followed by From<QNameRef> for QName
QNameFromId(id) == QNameId("", id)

Attribute_new(name, value) == [name |-> name, value |-> value]

Attribute_default(id) ==
    IF default_value(id).some
    THEN Some(Attribute_new(QNameFromId(id), default_value(id).v))
    ELSE None

\* mutant: the prefix takes part in the check
check_is_default_NoPrefix(a) ==
    IF a.name.tag = "Id" /\ a.name.prefix = ""
    THEN IF default_value(a.name.id).some
         THEN a.value = default_value(a.name.id).v
         ELSE FALSE
    ELSE FALSE

check_is_default(a) ==
    IF a.name.tag = "Id"
    THEN IF default_value(a.name.id).some
         THEN a.value = default_value(a.name.id).v
         ELSE FALSE
    ELSE FALSE

InitAttr ==
    /\ DocIdle
    /\ TrimIdle
    /\ LinkIdle
    /\ AttrIdle
    /\ WriteIdle
    /\ PathIdle

NewAttribute ==
    /\ \E name \in QNames, value \in AttributeValues : attribute' = Attribute_new(name, value)
    /\ fromDefault' = FALSE
    /\ isDefault' = "unchecked"
    /\ UNCHANGED <<docVars, trimVars, linkVars, writeVars, pathVars>>

DefaultAttribute ==
    /\ \E id \in AttributeId :
          /\ Attribute_default(id).some
          /\ attribute' = Attribute_default(id).v
    /\ fromDefault' = TRUE
    /\ isDefault' = "unchecked"
    /\ UNCHANGED <<docVars, trimVars, linkVars, writeVars, pathVars>>

CheckIsDefault ==
    /\ attribute # NoAttribute
    /\ isDefault' = IF check_is_default(attribute) THEN "true" ELSE "false"
    /\ UNCHANGED <<attribute, fromDefault>>
    /\ UNCHANGED <<docVars, trimVars, linkVars, writeVars, pathVars>>

NextAttr == NewAttribute \/ DefaultAttribute \/ CheckIsDefault

SpecAttr == InitAttr /\ [][NextAttr]_vars

(***************************************************************************)
(* Link attributes and NodeData.linked_nodes                               *)
(***************************************************************************)
LinkValue(node) == [type |-> "Link", node |-> node]
FuncLinkValue(node) == [type |-> "FuncLink", node |-> node]

IsLink(v) == v.type = "Link" \/ v.type = "FuncLink"

\* the first registration of 'owner' leaves the Vec
Unregister(ln, owner) ==
    LET hits == {k \in 1..Len(ln) : ln[k] = owner}
    IN  IF hits = {} THEN ln
        ELSE RemoveAt(ln, CHOOSE k \in hits : \A j \in hits : k <= j)

\* mutant: an overwritten link stays registered
Node_set_attribute_Stale(st, m, a) ==
    LET linked == IF IsLink(a.value)
                  THEN [st.linked_nodes EXCEPT ![a.value.node] = Append(@, m)]
                  ELSE st.linked_nodes
    IN  [attributes |-> [st.attributes EXCEPT ![m] = set_attribute(@, a)],
         linked_nodes |-> linked]

\* Node::set_attribute on node m of the state st = [attributes, linked_nodes]
Node_set_attribute(st, m, a) ==
    LET old == get_value(st.attributes[m], a.name)
        unlinked == IF IsLink(old)
                    THEN [st.linked_nodes EXCEPT ![old.node] = Unregister(@, m)]
                    ELSE st.linked_nodes
        linked == IF IsLink(a.value)
                  THEN [unlinked EXCEPT ![a.value.node] = Append(@, m)]
                  ELSE unlinked
    IN  [attributes |-> [st.attributes EXCEPT ![m] = set_attribute(@, a)],
         linked_nodes |-> linked]

\* Node::remove_attribute
Node_remove_attribute(st, m, id) ==
    LET old == get_value(st.attributes[m], id)
    IN  [attributes |-> [st.attributes EXCEPT ![m] = SelectSeq(@, LAMBDA a : a.name # id)],
         linked_nodes |-> IF IsLink(old)
                          THEN [st.linked_nodes EXCEPT ![old.node] = Unregister(@, m)]
                          ELSE st.linked_nodes]

LinkAttributeIds == {"Href", "Fill"}

LinkAttributeValues ==
    {StringValue("none")} \cup {LinkValue(n) : n \in 1..LinkNodes}
        \cup {FuncLinkValue(n) : n \in 1..LinkNodes}

\* a document of LinkNodes elements without attributes
InitLink ==
    /\ InitDocument([n \in 1..LinkNodes |-> "Element"],
                    [n \in 1..LinkNodes |-> IF n = 1 THEN 0 ELSE 1],
                    [n \in 1..LinkNodes |-> <<>>],
                    [n \in 1..LinkNodes |-> <<>>])
    /\ TrimIdle
    /\ AttrIdle
    /\ WriteIdle
    /\ PathIdle
    /\ linked_nodes = [n \in 1..LinkNodes |-> <<>>]
    /\ ops = 0
    /\ lastOp = [op |-> "none", node |-> 0, old |-> NoValue]

SetAttribute ==
    /\ ops < MaxOps
    /\ \E m \in NodeIds, id \in LinkAttributeIds, v \in LinkAttributeValues :
          LET st == Node_set_attribute([attributes |-> attributes, linked_nodes |-> linked_nodes],
                                       m, [name |-> id, value |-> v, visible |-> TRUE])
          IN  /\ attributes' = st.attributes
              /\ linked_nodes' = st.linked_nodes
              /\ lastOp' = [op |-> "set", node |-> m, old |-> get_value(attributes[m], id)]
    /\ ops' = ops + 1
    /\ UNCHANGED <<node_type, parent, text, attributes0, text0, attributes1, text1, memo,
                   removed, panicked, runs>>
    /\ UNCHANGED <<trimVars, attrVars, writeVars, pathVars>>

RemoveAttribute ==
    /\ ops < MaxOps
    /\ \E m \in NodeIds, id \in LinkAttributeIds :
          LET st == Node_remove_attribute([attributes |-> attributes, linked_nodes |-> linked_nodes],
                                          m, id)
          IN  /\ attributes' = st.attributes
              /\ linked_nodes' = st.linked_nodes
              /\ lastOp' = [op |-> "remove", node |-> m, old |-> get_value(attributes[m], id)]
    /\ ops' = ops + 1
    /\ UNCHANGED <<node_type, parent, text, attributes0, text0, attributes1, text1, memo,
                   removed, panicked, runs>>
    /\ UNCHANGED <<trimVars, attrVars, writeVars, pathVars>>

NextLink == SetAttribute \/ RemoveAttribute

SpecLink == InitLink /\ [][NextLink]_vars

(***************************************************************************)
(* QName::has_id and Attribute::write_buf_opt                              *)
(*                                                                         *)
(* An attribute value of type String is here a sequence of code points;    *)
(* names and prefixes are ASCII strings.  The buffer is a sequence of      *)
(* bytes.                                                                  *)
(***************************************************************************)
MaxUnicodeLen == 2

\* '&' '#' 'e-acute' (two bytes in UTF-8) and a CJK ideograph (three bytes)
CodePoints == {38, 35, 233, 20013}

\* str::as_bytes for the ASCII names and prefixes of the model
as_bytes(s) ==
    CASE s = "" -> <<>>
      [] s = "xlink" -> <<120, 108, 105, 110, 107>>
      [] s = "xml" -> <<120, 109, 108>>
      [] s = "fill" -> <<102, 105, 108, 108>>
      [] s = "foo" -> <<102, 111, 111>>
      [] s = "opacity" -> <<111, 112, 97, 99, 105, 116, 121>>
      [] s = "unicode" -> <<117, 110, 105, 99, 111, 100, 101>>
      [] s = "xml:space" -> <<120, 109, 108, 58, 115, 112, 97, 99, 101>>

\* AttributeId::as_str
as_str(id) ==
    CASE id = "Fill" -> "fill"
      [] id = "Opacity" -> "opacity"
      [] id = "Unicode" -> "unicode"
      [] id = "XmlSpace" -> "xml:space"

\* the UTF-8 bytes of one char
utf8_char(c) ==
    IF c < 128 THEN <<c>>
    ELSE IF c < 2048 THEN <<192 + (c \div 64), 128 + (c % 64)>>
    ELSE <<224 + (c \div 4096), 128 + ((c \div 64) % 64), 128 + (c % 64)>>

\* String::as_bytes
RECURSIVE utf8(_)
utf8(s) == IF s = <<>> THEN <<>> ELSE utf8_char(Head(s)) \o utf8(Tail(s))

HexDigit(d) == IF d < 10 THEN 48 + d ELSE 87 + d

\* format "{:x}"
RECURSIVE LowerHex(_)
LowerHex(n) ==
    IF n < 16 THEN <<HexDigit(n)>> ELSE Append(LowerHex(n \div 16), HexDigit(n % 16))

\* format "{}" of a non-negative integer
RECURSIVE Decimal(_)
Decimal(n) == IF n < 10 THEN <<48 + n>> ELSE Append(Decimal(n \div 10), 48 + (n % 10))

starts_with(s, p) == Len(s) >= Len(p) /\ SubSeq(s, 1, Len(p)) = p

\* mutant: the prefix is not compared
has_id_AnyPrefix(name, prefix, id) ==
    IF name.tag = "Id" THEN id = name.id ELSE FALSE

\* QName::has_id
has_id(name, prefix, id) ==
    IF name.tag = "Id" THEN id = name.id /\ prefix = name.prefix ELSE FALSE

\* QName::as_ref
as_ref(name) ==
    IF name.tag = "Id"
    THEN [tag |-> "IdRef", prefix |-> name.prefix, id |-> name.id]
    ELSE [tag |-> "NameRef", prefix |-> name.prefix, name |-> name.name]

\* QNameRef::has_id
QNameRef_has_id(name, prefix, id) ==
    IF name.tag = "IdRef" THEN id = name.id /\ prefix = name.prefix ELSE FALSE

\* Attribute::has_id
Attribute_has_id(a, prefix, id) == has_id(a.name, prefix, id)

\* mutant: always the double quote
write_quote_Double(o, out) == Append(out, 34)

write_quote(o, out) == Append(out, IF o.use_single_quote THEN 39 ELSE 34)

\* the loop over unicode.chars() of write_escaped
RECURSIVE EscapeLoop(_, _)
EscapeLoop(unicode, out) ==
    IF unicode = <<>> THEN out
    ELSE EscapeLoop(Tail(unicode),
                    Append((out \o <<38, 35, 120>>) \o LowerHex(Head(unicode)), 59))

\* mutant: a value beginning with "&#" is escaped like any other
write_escaped_Always(unicode, out) == EscapeLoop(unicode, out)

write_escaped(unicode, out) ==
    IF starts_with(unicode, <<38, 35>>)
    THEN out \o utf8(unicode)
    ELSE EscapeLoop(unicode, out)

\* the #rrggbb / #rgb text of a colour
HexByte(n) == <<HexDigit(n \div 16), HexDigit(n % 16)>>

Shortens(n) == n \div 16 = n % 16

\* AttributeValue::write_buf_opt, the generic per-type writer
AttributeValue_write_buf_opt(v, o, out) ==
    CASE v.type = "String" -> out \o utf8(v.s)
      [] v.type = "Number" -> out \o Decimal(v.n)
      [] v.type = "None" -> out \o <<110, 111, 110, 101>>
      [] v.type = "Color" ->
            IF o.trim_hex_colors /\ Shortens(v.r) /\ Shortens(v.g) /\ Shortens(v.b)
            THEN out \o <<35, HexDigit(v.r % 16), HexDigit(v.g % 16), HexDigit(v.b % 16)>>
            ELSE ((Append(out, 35) \o HexByte(v.r)) \o HexByte(v.g)) \o HexByte(v.b)

\* Attribute::write_buf_opt: the buffer it leaves and the branch it took for
\* the value ("warned": only the warn! of the invalid 'unicode' value ran)
write_buf_opt(a, o, out) ==
    LET b1 == IF a.name.prefix # ""
              THEN Append(out \o as_bytes(a.name.prefix), 58)
              ELSE out
        b2 == IF a.name.tag = "Id"
              THEN b1 \o as_bytes(as_str(a.name.id))
              ELSE b1 \o as_bytes(a.name.name)
        b3 == Append(b2, 61)
        b4 == write_quote(o, b3)
        br == IF Attribute_has_id(a, "", "Unicode")
              THEN IF a.value.type = "String" THEN "escaped" ELSE "warned"
              ELSE "generic"
        b5 == CASE br = "escaped" -> write_escaped(a.value.s, b4)
                [] br = "warned" -> b4
                [] br = "generic" -> AttributeValue_write_buf_opt(a.value, o, b4)
    IN  [buf |-> write_quote(o, b5), branch |-> br]

WriteNames ==
    QNames \cup {QNameName(p, "unicode") : p \in Prefixes}

WriteValues ==
    {StringValue(s) : s \in SeqsUpTo(CodePoints, MaxUnicodeLen)}
        \cup {ColorValue(0, 170, 0), ColorValue(18, 52, 86), NumberValue(10),
              [type |-> "None"]}

WriteOptions == [use_single_quote : BOOLEAN, trim_hex_colors : BOOLEAN]

\* what the buffer may hold before the attribute: nothing, or "<a "
Buffers == {<<>>, <<60, 97, 32>>}

InitWrite ==
    /\ DocIdle
    /\ TrimIdle
    /\ LinkIdle
    /\ PathIdle
    /\ attribute \in {Attribute_new(name, value) : name \in WriteNames, value \in WriteValues}
    /\ fromDefault = FALSE
    /\ isDefault = "unchecked"
    /\ opt \in WriteOptions
    /\ buf0 \in Buffers
    /\ buf = buf0
    /\ branch = "none"
    /\ hasId = NoQuery

WriteBufOpt ==
    /\ branch = "none"
    /\ buf' = write_buf_opt(attribute, opt, buf).buf
    /\ branch' = write_buf_opt(attribute, opt, buf).branch
    /\ UNCHANGED <<opt, buf0, hasId>>
    /\ UNCHANGED <<docVars, trimVars, attrVars, linkVars, pathVars>>

HasId ==
    /\ \E prefix \in Prefixes, id \in AttributeId :
          hasId' = [name |-> attribute.name, prefix |-> prefix, id |-> id,
                    result |-> has_id(attribute.name, prefix, id),
                    ref_result |-> QNameRef_has_id(as_ref(attribute.name), prefix, id)]
    /\ UNCHANGED <<opt, buf0, buf, branch>>
    /\ UNCHANGED <<docVars, trimVars, attrVars, linkVars, pathVars>>

NextWrite == WriteBufOpt \/ HasId

SpecWrite == InitWrite /\ [][NextWrite]_vars

(***************************************************************************)
(* Path::from_span                                                         *)
(*                                                                         *)
(* The tokenizer is outside the repository: a run of it is the sequence of *)
(* tokens it yields.                                                       *)
(***************************************************************************)
MaxTokens == 2

\* the start values of a token's numbers; the numbers of one token are the
\* start value plus 1, 2, ... in the order of its fields, so no two are equal
Starts == {0, 10}

\* svgparser::path::Token
Tokens ==
    UNION { { [kind |-> "MoveTo", abs |-> a, x |-> n + 1, y |-> n + 2],
              [kind |-> "LineTo", abs |-> a, x |-> n + 1, y |-> n + 2],
              [kind |-> "HorizontalLineTo", abs |-> a, x |-> n + 1],
              [kind |-> "VerticalLineTo", abs |-> a, y |-> n + 1],
              [kind |-> "CurveTo", abs |-> a, x1 |-> n + 1, y1 |-> n + 2, x2 |-> n + 3,
               y2 |-> n + 4, x |-> n + 5, y |-> n + 6],
              [kind |-> "SmoothCurveTo", abs |-> a, x2 |-> n + 1, y2 |-> n + 2, x |-> n + 3,
               y |-> n + 4],
              [kind |-> "Quadratic", abs |-> a, x1 |-> n + 1, y1 |-> n + 2, x |-> n + 3,
               y |-> n + 4],
              [kind |-> "SmoothQuadratic", abs |-> a, x |-> n + 1, y |-> n + 2],
              [kind |-> "EllipticalArc", abs |-> a, rx |-> n + 1, ry |-> n + 2,
               x_axis_rotation |-> n + 3, large_arc |-> (n = 0), sweep |-> (n # 0),
               x |-> n + 4, y |-> n + 5],
              [kind |-> "ClosePath", abs |-> a] } : a \in BOOLEAN, n \in Starts }

Segment(absolute, data) == [absolute |-> absolute, data |-> data]

\* the match of the loop body of from_span
SegmentOf(t) ==
    CASE t.kind = "MoveTo" ->
            Segment(t.abs, [kind |-> "MoveTo", x |-> t.x, y |-> t.y])
      [] t.kind = "LineTo" ->
            Segment(t.abs, [kind |-> "LineTo", x |-> t.x, y |-> t.y])
      [] t.kind = "HorizontalLineTo" ->
            Segment(t.abs, [kind |-> "HorizontalLineTo", x |-> t.x])
      [] t.kind = "VerticalLineTo" ->
            Segment(t.abs, [kind |-> "VerticalLineTo", y |-> t.y])
      [] t.kind = "CurveTo" ->
            Segment(t.abs, [kind |-> "CurveTo", x1 |-> t.x1, y1 |-> t.y1, x2 |-> t.x2,
                            y2 |-> t.y2, x |-> t.x, y |-> t.y])
      [] t.kind = "SmoothCurveTo" ->
            Segment(t.abs, [kind |-> "SmoothCurveTo", x2 |-> t.x2, y2 |-> t.y2, x |-> t.x,
                            y |-> t.y])
      [] t.kind = "Quadratic" ->
            Segment(t.abs, [kind |-> "Quadratic", x1 |-> t.x1, y1 |-> t.y1, x |-> t.x,
                            y |-> t.y])
      [] t.kind = "SmoothQuadratic" ->
            Segment(t.abs, [kind |-> "SmoothQuadratic", x |-> t.x, y |-> t.y])
      [] t.kind = "EllipticalArc" ->
            Segment(t.abs, [kind |-> "EllipticalArc", rx |-> t.rx, ry |-> t.ry,
                            x_axis_rotation |-> t.x_axis_rotation,
                            large_arc |-> t.large_arc, sweep |-> t.sweep, x |-> t.x,
                            y |-> t.y])
      [] t.kind = "ClosePath" ->
            Segment(t.abs, [kind |-> "ClosePath"])

\* mutant: every segment is put in front of the ones already there
RECURSIVE PushLoop_Front(_, _)
PushLoop_Front(ts, p) ==
    IF ts = <<>> THEN p ELSE PushLoop_Front(Tail(ts), <<SegmentOf(Head(ts))>> \o p)

\* the loop of from_span: p.push(seg) for every token, in order
RECURSIVE PushLoop(_, _)
PushLoop(ts, p) ==
    IF ts = <<>> THEN p ELSE PushLoop(Tail(ts), Append(p, SegmentOf(Head(ts))))

Ok(p) == [ok |-> TRUE, d |-> p]

from_span(ts) == Ok(PushLoop(ts, <<>>))

InitPath ==
    /\ DocIdle
    /\ TrimIdle
    /\ AttrIdle
    /\ LinkIdle
    /\ WriteIdle
    /\ tokens \in SeqsUpTo(Tokens, MaxTokens)
    /\ path = NoPath

FromSpan ==
    /\ path = NoPath
    /\ path' = from_span(tokens)
    /\ UNCHANGED tokens
    /\ UNCHANGED <<docVars, trimVars, attrVars, linkVars, writeVars>>

NextPath == FromSpan

SpecPath == InitPath /\ [][NextPath]_vars

(***************************************************************************)
(* Vocabulary of the properties                                            *)
(***************************************************************************)
Elements == {n \in NodeIds : node_type[n] = "Element"}
Texts == {n \in NodeIds : node_type[n] = "Text"}

BeginsWithSpace(s) == s # <<>> /\ s[1] = SP
EndsWithSpace(s) == s # <<>> /\ s[Len(s)] = SP
DropFirst(s) == SubSeq(s, 2, Len(s))
DropLast(s) == SubSeq(s, 1, Len(s) - 1)

FirstIsText(e) == \E t \in Texts : parent[t] = e /\ \A n \in NodeIds : parent[n] = e => t <= n

TextsIn(e) == {t \in Texts : IsAncestor(e, t)}

\* Text nodes of e that follow one another in document order
AdjacentTexts(e) ==
    {p \in TextsIn(e) \X TextsIn(e) :
        p[1] < p[2] /\ \A t \in TextsIn(e) : ~(p[1] < t /\ t < p[2])}

\* the elements prepare_text_children is applied to: the first child is a
\* Text node and no ancestor has a Text node as its first child
Walked(e) ==
    /\ e \in Elements
    /\ FirstIsText(e)
    /\ \A a \in Elements : IsAncestor(a, e) => ~FirstIsText(a)

\* the mode the pass resolved for an element: its xml:space attribute at the
\* end of the walk, explicit or memoized ("Unvisited" when there is none)
Resolved(e) ==
    LET hits == {k \in 1..Len(memo[e]) : memo[e][k].name = "XmlSpace"}
    IN  IF hits = {} THEN "Unvisited"
        ELSE IF \E k \in hits : memo[e][k].value.s = "preserve" THEN "Preserve" ELSE "Default"

ExplicitMode(e) ==
    LET hits == {k \in 1..Len(attributes0[e]) : attributes0[e][k].name = "XmlSpace"}
    IN  IF hits = {} THEN "Unset"
        ELSE IF \E k \in hits : attributes0[e][k].value.s = "preserve" THEN "Preserve" ELSE "Default"

\* the mode by inheritance from the parent element
RECURSIVE Inherited(_)
Inherited(e) ==
    IF e = 0 THEN "Default"
    ELSE IF ExplicitMode(e) # "Unset" THEN ExplicitMode(e)
    ELSE Inherited(parent[e])

\* Default-mode conversion, stated from the right end of the string: newlines
\* vanish, a tab counts as a space, a space followed by a space vanishes
RECURSIVE Consolidated(_)
Consolidated(s) ==
    IF s = <<>> THEN <<>>
    ELSE LET rest == Consolidated(Tail(s))
             b == IF s[1] = TAB THEN SP ELSE s[1]
         IN  IF s[1] \in {LF, CR} THEN rest
             ELSE IF b = SP /\ BeginsWithSpace(rest) THEN rest
             ELSE <<b>> \o rest

RECURSIVE Concat(_)
Concat(ss) == IF ss = <<>> THEN <<>> ELSE Head(ss) \o Concat(Tail(ss))

(***************************************************************************)
(* Properties of prepare_text                                              *)
(***************************************************************************)
\* C1: prepare_text is idempotent: a second run leaves every text payload and
\* every element's attributes exactly as they were after the first run.
C1_Idempotent ==
    runs >= 2 => (text = text1 /\ attributes = attributes1)

C4_ModeFromParent ==
    runs >= 1 =>
        \A e \in Elements : Resolved(e) # "Unvisited" => Resolved(e) = Inherited(e)

FirstText(e) == CHOOSE t \in TextsIn(e) : \A u \in TextsIn(e) : t <= u
LastText(e) == CHOOSE t \in TextsIn(e) : \A u \in TextsIn(e) : u <= t

BothDefault(p) == Resolved(parent[p[1]]) = "Default" /\ Resolved(parent[p[2]]) = "Default"

RoundTripResult ==
    (text0 = RoundTripDocument.tx /\ runs >= 1) =>
        Concat(<<text[2], text[4], text[5]>>)
            = <<84, 101, 120, 116, 32, 116, 101, 120, 116, 32, 116, 101, 120, 116>>

\* C5 as stated: in any element with several descendant Text nodes, no pair of
\* adjacent Default-mode Text nodes is left with a trailing space on the left
\* and a leading space on the right, and the round-trip document reads
\* "Text text text".
C5_NoDoubleSpaceAnyElement ==
    /\ runs >= 1 =>
         \A e \in Elements : Cardinality(TextsIn(e)) >= 2 =>
            \A p \in AdjacentTexts(e) : BothDefault(p) =>
               ~(EndsWithSpace(text[p[1]]) /\ BeginsWithSpace(text[p[2]]))
    /\ RoundTripResult

\* C5 amended: in an element the pass applies prepare_text_children to (its
\* first child is a Text node and no ancestor's first child is one) with
\* several descendant Text nodes, no pair of adjacent Default-mode Text nodes is
\* left with a trailing space on the left and a leading space on the right;
\* the left node of a pair never loses its trailing space, and where it ends
\* with a space and the right node began with one, exactly that leading space
\* (and at most the last node's trailing space) is gone from the right node;
\* the round-trip document reads "Text text text".
C5_NoDoubleSpace ==
    /\ runs >= 1 =>
         \A e \in Elements : (Walked(e) /\ Cardinality(TextsIn(e)) >= 2) =>
            \A p \in AdjacentTexts(e) : BothDefault(p) =>
               /\ ~(EndsWithSpace(text[p[1]]) /\ BeginsWithSpace(text[p[2]]))
               /\ runs = 1 =>
                     text[p[1]] \in {Consolidated(text0[p[1]]),
                                     DropFirst(Consolidated(text0[p[1]]))}
               /\ (runs = 1 /\ EndsWithSpace(text[p[1]])
                            /\ BeginsWithSpace(Consolidated(text0[p[2]]))) =>
                     text[p[2]] \in {DropFirst(Consolidated(text0[p[2]])),
                                     DropLast(DropFirst(Consolidated(text0[p[2]])))}
    /\ RoundTripResult

\* C5 witness: the round-trip document after the pass; the text of the tspan
\* has lost its leading space to the trailing space of "Text ".
C5_Witness ==
    /\ runs = 1
    /\ text0 = RoundTripDocument.tx
    /\ text[2] = <<84, 101, 120, 116, 32>>
    /\ text[4] = <<116, 101, 120, 116, 32>>

\* C6: in an element with two or more descendant Text nodes the pass is
\* applied to, after the pass a Default-mode first Text node does not begin
\* with a space and a Default-mode last Text node does not end with one; both
\* removals happen when both apply.
C6_BothBoundariesTrimmed ==
    runs = 1 =>
        \A e \in Elements : (Walked(e) /\ Cardinality(TextsIn(e)) >= 2) =>
            /\ Resolved(parent[FirstText(e)]) = "Default" => ~BeginsWithSpace(text[FirstText(e)])
            /\ Resolved(parent[LastText(e)]) = "Default" => ~EndsWithSpace(text[LastText(e)])

\* the single-node rule on the consolidated text c
SingleTrimmed(c) ==
    IF c = <<SP>> THEN <<>>
    ELSE LET a == IF BeginsWithSpace(c) THEN DropFirst(c) ELSE c
         IN  IF EndsWithSpace(c) THEN DropLast(a) ELSE a

SingleTextRule(e) ==
    \A t \in TextsIn(e) :
        /\ text[t] = SingleTrimmed(Consolidated(text0[t]))
        /\ ~BeginsWithSpace(text[t])
        /\ ~EndsWithSpace(text[t])

\* C7 as stated: for any element under Default mode whose only descendant Text
\* node is its first child, the payload after the pass is the consolidated text
\* cleared if it is one space, else without its leading and without its
\* trailing space; it never begins or ends with a space.
C7_SingleTextAnyElement ==
    runs >= 1 =>
        \A e \in Elements :
            (Resolved(e) = "Default" /\ FirstIsText(e) /\ Cardinality(TextsIn(e)) = 1) =>
                SingleTextRule(e)

\* C7 amended: the same, for the elements the pass applies
\* prepare_text_children to (no ancestor element has a Text node as its first
\* child).
C7_SingleText ==
    runs >= 1 =>
        \A e \in Elements :
            (Walked(e) /\ Resolved(e) = "Default" /\ Cardinality(TextsIn(e)) = 1) =>
                SingleTextRule(e)

\* C7 witness: a single Text node under Default mode whose consolidated text
\* has a space at both ends has lost both.
C7_Witness ==
    /\ runs = 1
    /\ \E e \in Elements :
          /\ Walked(e) /\ Resolved(e) = "Default" /\ Cardinality(TextsIn(e)) = 1
          /\ \E t \in TextsIn(e) :
                /\ BeginsWithSpace(Consolidated(text0[t]))
                /\ EndsWithSpace(Consolidated(text0[t]))
                /\ Len(Consolidated(text0[t])) >= 3
                /\ Len(text[t]) = Len(Consolidated(text0[t])) - 2

(***************************************************************************)
(* Properties of trim_text                                                 *)
(***************************************************************************)
IsBlank(c) == c = TAB \/ c = LF \/ c = CR

\* the input with newlines dropped and tabs turned into spaces
Unfolded(s) ==
    LET kept == SelectSeq(s, LAMBDA c : c # LF /\ c # CR)
    IN  [k \in 1..Len(kept) |-> IF kept[k] = TAB THEN SP ELSE kept[k]]

\* C8: in Default mode trim_text removes every '\n' and '\r', turns every tab
\* into a space and collapses each maximal run of spaces into one space: the
\* result has no tab, newline or carriage return and no two adjacent spaces,
\* its other bytes are those of the input in order, and a leading or trailing
\* space is kept.
C8_DefaultTrim ==
    (trimDone /\ trimMode = "Default") =>
        /\ trimOut = Consolidated(trimIn)
        /\ \A k \in 1..Len(trimOut) : ~IsBlank(trimOut[k])
        /\ \A k \in 1..(Len(trimOut) - 1) : ~(trimOut[k] = SP /\ trimOut[k + 1] = SP)
        /\ SelectSeq(trimOut, LAMBDA c : c # SP) = SelectSeq(Unfolded(trimIn), LAMBDA c : c # SP)
        /\ BeginsWithSpace(trimOut) <=> BeginsWithSpace(Unfolded(trimIn))
        /\ EndsWithSpace(trimOut) <=> EndsWithSpace(Unfolded(trimIn))

\* C8 witness: a run of blanks inside the string and a blank at each end have
\* each become one space.
C8_Witness ==
    /\ trimDone
    /\ trimMode = "Default"
    /\ trimIn = <<TAB, 97, SP, LF, SP>>
    /\ trimOut = <<SP, 97, SP>>

\* positions of the input that start a "\r\n" pair
CrLfAt(s) == {k \in 1..(Len(s) - 1) : s[k] = CR /\ s[k + 1] = LF}

\* C9: in Preserve mode trim_text turns each "\r\n" pair into one space and
\* every other tab, '\n' or '\r' into a space, without trimming or collapsing:
\* the output is the input without the '\r' of each pair, blanks replaced by
\* spaces, so its length is the input length minus the number of pairs.
C9_PreserveTrim ==
    (trimDone /\ trimMode = "Preserve") =>
        LET kept == SortedSeq((1..Len(trimIn)) \ CrLfAt(trimIn))
        IN  /\ Len(trimOut) = Len(trimIn) - Cardinality(CrLfAt(trimIn))
            /\ trimOut = [k \in 1..Len(kept) |->
                            IF IsBlank(trimIn[kept[k]]) THEN SP ELSE trimIn[kept[k]]]

\* C9 witness: a "\r\n" pair became one space while two spaces and a lone
\* '\r' stayed one byte each.
C9_Witness ==
    /\ trimDone
    /\ trimMode = "Preserve"
    /\ trimIn = <<CR, LF, SP, SP, CR>>
    /\ trimOut = <<SP, SP, SP, SP>>

(***************************************************************************)
(* Properties of the default check                                         *)
(***************************************************************************)
\* C10: check_is_default is true exactly when the attribute's name is a known
\* identifier with a registered default and the value equals that default; it
\* is false for every arbitrary-string name and every identifier without a
\* default; an attribute made by Attribute::default always passes.
C10_CheckIsDefault ==
    isDefault # "unchecked" =>
        /\ isDefault = "true" <=>
              /\ attribute.name.tag = "Id"
              /\ \E v \in AttributeValues : default_value(attribute.name.id) = Some(v) /\ attribute.value = v
        /\ attribute.name.tag = "Name" => isDefault = "false"
        /\ (attribute.name.tag = "Id" /\ default_value(attribute.name.id) = None) => isDefault = "false"
        /\ fromDefault => isDefault = "true"

\* C10 witness: an attribute made by Attribute::default passed the check.
C10_Witness ==
    /\ fromDefault
    /\ isDefault = "true"
    /\ attribute.name.id = "Opacity"

(***************************************************************************)
(* Properties of the link index                                            *)
(***************************************************************************)
Referrers(n) ==
    {m \in NodeIds : \E k \in 1..Len(attributes[m]) :
        IsLink(attributes[m][k].value) /\ attributes[m][k].value.node = n}

\* C2: after every sequence of attribute set / overwrite / remove operations,
\* for every node N the nodes listed in linked_nodes(N) are exactly the nodes
\* holding some attribute whose value is a Link or FuncLink to N.
C2_LinkedNodesExact ==
    ops >= 1 =>
        \A n \in NodeIds : {linked_nodes[n][k] : k \in 1..Len(linked_nodes[n])} = Referrers(n)

\* C2 witness: a node that held a Link to another node has just had that
\* attribute removed or overwritten by a plain value: it is no longer among the
\* linked_nodes of the target.
C2_Witness ==
    /\ lastOp.op \in {"set", "remove"}
    /\ lastOp.old.type = "Link"
    /\ lastOp.old.node # lastOp.node
    /\ lastOp.node \notin Referrers(lastOp.old.node)
    /\ linked_nodes[lastOp.old.node] = <<>>

(***************************************************************************)
(* Properties of the attribute writer                                      *)
(***************************************************************************)
Written == branch # "none"

Quote == IF opt.use_single_quote THEN 39 ELSE 34

PrefixText == as_bytes(attribute.name.prefix)

LocalName ==
    IF attribute.name.tag = "Id"
    THEN as_bytes(as_str(attribute.name.id))
    ELSE as_bytes(attribute.name.name)

\* prefix, ':' when the prefix is not empty, local name
NameText ==
    (IF attribute.name.prefix = "" THEN <<>> ELSE Append(PrefixText, 58)) \o LocalName

\* the bytes of the buffer between the two quotes
ValueText == SubSeq(buf, Len(buf0) + Len(NameText) + 3, Len(buf) - 1)

\* what the value writer of the branch taken appends to an empty buffer
BranchText ==
    CASE branch = "escaped" -> write_escaped(attribute.value.s, <<>>)
      [] branch = "warned" -> <<>>
      [] branch = "generic" -> AttributeValue_write_buf_opt(attribute.value, opt, <<>>)

\* C11: write_buf_opt appends, in this order and with nothing else, the prefix
\* and ':' only when the prefix is not empty, the local name, '=', the quote,
\* the value text and the same quote again; the quote is ' when
\* use_single_quote is set and " otherwise; no blank is written around them
\* and the bytes already in the buffer stay.
C11_WriteOrder ==
    Written =>
        /\ buf = (((buf0 \o NameText) \o <<61, Quote>>) \o BranchText) \o <<Quote>>
        /\ SubSeq(buf, 1, Len(buf0)) = buf0
        /\ buf[Len(buf0) + Len(NameText) + 2] = buf[Len(buf)]
        /\ buf[Len(buf)] = (IF opt.use_single_quote THEN 39 ELSE 34)
        /\ IF attribute.name.prefix = ""
           THEN SubSeq(buf, Len(buf0) + 1, Len(buf0) + Len(LocalName)) = LocalName
           ELSE /\ SubSeq(buf, Len(buf0) + 1, Len(buf0) + Len(PrefixText)) = PrefixText
                /\ buf[Len(buf0) + Len(PrefixText) + 1] = 58
                /\ SubSeq(buf, Len(buf0) + Len(PrefixText) + 2,
                          Len(buf0) + Len(PrefixText) + 1 + Len(LocalName)) = LocalName
        /\ \A i \in (Len(buf0) + 1)..(Len(buf0) + Len(NameText) + 2) :
              buf[i] \notin {SP, TAB, LF, CR}

\* C11 witness: the writer scenario, fill='#0a0' appended after "<a ".
C11_Witness ==
    /\ Written
    /\ opt = [use_single_quote |-> TRUE, trim_hex_colors |-> TRUE]
    /\ attribute = Attribute_new(QNameId("", "Fill"), ColorValue(0, 170, 0))
    /\ buf0 = <<60, 97, 32>>
    /\ buf = <<60, 97, 32, 102, 105, 108, 108, 61, 39, 35, 48, 97, 48, 39>>

\* the value of a digit of lower-case hexadecimal, -1 for any other byte
HexDigitValue(b) ==
    IF b >= 48 /\ b <= 57 THEN b - 48
    ELSE IF b >= 97 /\ b <= 102 THEN b - 87
    ELSE -1

\* the number written by a digit string without leading zero, -1 if it is none
RECURSIVE HexValue(_)
HexValue(ds) ==
    IF ds = <<>> THEN -1
    ELSE IF Len(ds) = 1 THEN HexDigitValue(ds[1])
    ELSE LET hi == HexValue(SubSeq(ds, 1, Len(ds) - 1))
             lo == HexDigitValue(ds[Len(ds)])
         IN  IF hi <= 0 \/ lo < 0 THEN -1 ELSE hi * 16 + lo

\* position of the first ';' of b, 0 if there is none
FirstSemicolon(b) ==
    IF \E i \in 1..Len(b) : b[i] = 59
    THEN CHOOSE i \in 1..Len(b) : b[i] = 59 /\ \A j \in 1..(i - 1) : b[j] # 59
    ELSE 0

\* the code points named by a sequence of references "&#x<hex>;", with -1 where
\* the bytes are not of that form
RECURSIVE ParseRefs(_)
ParseRefs(b) ==
    IF b = <<>> THEN <<>>
    ELSE IF Len(b) < 5 \/ SubSeq(b, 1, 3) # <<38, 35, 120>> \/ FirstSemicolon(b) < 5 THEN <<-1>>
    ELSE <<HexValue(SubSeq(b, 4, FirstSemicolon(b) - 1))>>
             \o ParseRefs(SubSeq(b, FirstSemicolon(b) + 1, Len(b)))

\* C12: for the 'unicode' identifier with a String value, a string beginning
\* with "&#" is written unchanged; any other string is written as one
\* reference "&#x<lowercase hex>;" per character, in order, n references for
\* n characters.
C12_UnicodeEscaped ==
    (Written /\ attribute.name = QNameId("", "Unicode") /\ attribute.value.type = "String") =>
        IF Len(attribute.value.s) >= 2 /\ attribute.value.s[1] = 38 /\ attribute.value.s[2] = 35
        THEN ValueText = utf8(attribute.value.s)
        ELSE /\ ParseRefs(ValueText) = attribute.value.s
             /\ Cardinality({i \in 1..Len(ValueText) : ValueText[i] = 59})
                    = Len(attribute.value.s)

\* C12 witness: a two-character string that does not begin with "&#" was
\* written as two references.
C12_Witness ==
    /\ Written
    /\ attribute = Attribute_new(QNameId("", "Unicode"), StringValue(<<233, 20013>>))
    /\ ValueText = <<38, 35, 120, 101, 57, 59, 38, 35, 120, 52, 101, 50, 100, 59>>

\* C13: a 'unicode' identifier with a value that is not a String is written
\* by the generic per-type writer: the text between the quotes is what the
\* generic writer produces for that value.
C13_NonStringFallback ==
    (Written /\ attribute.name = QNameId("", "Unicode") /\ attribute.value.type # "String") =>
        /\ branch = "warned"
        /\ ValueText = AttributeValue_write_buf_opt(attribute.value, opt, <<>>)

\* C15: has_id of QName and of QNameRef answers true exactly for the
\* identifier variant with equal identifier and equal prefix, never for an
\* arbitrary-string name; so the escaping branch of the writer is taken only
\* by the 'unicode' identifier with the empty prefix.
C15_HasId ==
    /\ hasId # NoQuery =>
          /\ hasId.result <=> hasId.name = QNameId(hasId.prefix, hasId.id)
          /\ hasId.ref_result = hasId.result
          /\ hasId.name.tag = "Name" => ~hasId.result /\ ~hasId.ref_result
    /\ Written =>
          ((branch \in {"escaped", "warned"}) <=> attribute.name = QNameId("", "Unicode"))

\* C15 witness: the name "unicode" given as an arbitrary string was asked for
\* the Unicode identifier, answered false, and its value was written by the
\* generic writer.
C15_Witness ==
    /\ hasId.name = QNameName("", "unicode")
    /\ hasId.prefix = ""
    /\ hasId.id = "Unicode"
    /\ ~hasId.result
    /\ branch = "generic"
    /\ attribute.value = StringValue(<<233>>)
    /\ ValueText = <<195, 169>>

(***************************************************************************)
(* Properties of path parsing                                              *)
(***************************************************************************)
\* the numbers and flags of a token or of a segment's data, by field name
Payload(r) == [f \in (DOMAIN r) \ {"kind", "abs"} |-> r[f]]

\* C14: from_span returns Ok with exactly one segment per token, in order; the
\* i-th segment has the command shape, the numbers and flags, and the absolute
\* flag of the i-th token.
C14_TokensToSegments ==
    path # NoPath =>
        /\ path.ok
        /\ Len(path.d) = Len(tokens)
        /\ \A i \in 1..Len(tokens) :
              /\ path.d[i].data.kind = tokens[i].kind
              /\ path.d[i].absolute = tokens[i].abs
              /\ Payload(path.d[i].data) = Payload(tokens[i])
              /\ DOMAIN path.d[i] = {"absolute", "data"}

\* C14 witness: a relative smooth curve followed by an absolute arc was parsed
\* into two segments.
C14_Witness ==
    /\ path.ok
    /\ Len(path.d) = 2
    /\ tokens[1].kind = "SmoothCurveTo" /\ ~tokens[1].abs
    /\ path.d[1].data = [kind |-> "SmoothCurveTo", x2 |-> 1, y2 |-> 2, x |-> 3, y |-> 4]
    /\ tokens[2].kind = "EllipticalArc" /\ tokens[2].abs
    /\ path.d[2].absolute
    /\ path.d[2].data.large_arc /\ ~path.d[2].data.sweep

(***************************************************************************)
(* Further properties of prepare_text                                      *)
(***************************************************************************)
\* Preserve-mode conversion: the '\r' of each "\r\n" pair vanishes, every
\* remaining tab, '\n' or '\r' is a space
Preserved(s) ==
    LET kept == SortedSeq((1..Len(s)) \ CrLfAt(s))
    IN  [k \in 1..Len(kept) |-> IF IsBlank(s[kept[k]]) THEN SP ELSE s[kept[k]]]

\* the Text nodes the pass visits: those below a walked element
Visited(t) == \E e \in Elements : Walked(e) /\ IsAncestor(e, t)

PreserveTexts == {t \in Texts : Resolved(parent[t]) = "Preserve"}

\* C16 as stated: after the pass every Text node whose parent resolves to
\* Preserve holds the Preserve-mode conversion of its original payload.
C16_PreserveAnyText ==
    runs >= 1 => \A t \in PreserveTexts : text[t] = Preserved(text0[t])

\* C16: a Text node below a walked element whose parent resolves to Preserve
\* is converted and never trimmed: after the pass it holds the Preserve-mode
\* conversion of its original payload, with every leading and trailing space,
\* whatever its neighbours are; a Text node with a Preserve parent that the
\* pass does not visit keeps its original payload.
C16_PreserveNotTrimmed ==
    runs >= 1 =>
        \A t \in PreserveTexts :
            /\ Visited(t) => text[t] = Preserved(text0[t])
            /\ ~Visited(t) => text[t] = text0[t]

\* C16 witness: a Preserve Text node that begins with a space stands right
\* after a Default Text node that ended with a space, and kept its spaces.
C16_Witness ==
    /\ runs >= 1
    /\ \E e \in Elements : \E p \in AdjacentTexts(e) :
          /\ Walked(e)
          /\ Resolved(parent[p[1]]) = "Default"
          /\ Resolved(parent[p[2]]) = "Preserve"
          /\ EndsWithSpace(Consolidated(text0[p[1]]))
          /\ CrLfAt(text0[p[2]]) # {}
          /\ BeginsWithSpace(text[p[2]])
          /\ text[p[2]] = <<SP, SP, 97, SP, 98>>

\* C17: remove_first and remove_last are never called on an empty string and
\* every byte they remove is a space.
C17_TrimSafety ==
    /\ ~panicked
    /\ removed \subseteq {SP}

\* C17 witness: in a pair walk the right node was a single space; its space
\* went as the duplicate of the left node's trailing space, the node is the
\* last one and was left alone once empty.
C17_Witness ==
    /\ runs >= 1
    /\ ~panicked
    /\ removed = {SP}
    /\ \E e \in Elements : \E p \in AdjacentTexts(e) :
          /\ Walked(e)
          /\ BothDefault(p)
          /\ \A t \in TextsIn(e) : t <= p[2]
          /\ EndsWithSpace(Consolidated(text0[p[1]]))
          /\ Consolidated(text0[p[2]]) = <<SP>>
          /\ text[p[2]] = <<>>

\* C18: prepare_text changes the payload of a Text node only if the node is
\* below some element whose first child is a Text node; every other Text node
\* and every Comment node keeps its payload.
C18_OnlyBelowTextFirst ==
    runs >= 1 =>
        /\ \A t \in Texts :
              text[t] # text0[t] => \E e \in Elements : FirstIsText(e) /\ IsAncestor(e, t)
        /\ \A c \in NodeIds : node_type[c] = "Comment" => text[c] = text0[c]

\* C18 witness: a Text node that follows an element child kept its tab and its
\* trailing space and a Comment kept its spaces and its tab, while a Text node
\* that is a first child was trimmed.
C18_Witness ==
    /\ runs >= 1
    /\ \E t \in Texts :
          /\ ~FirstIsText(parent[t])
          /\ ~Visited(t)
          /\ text[t] = <<TAB, 98, SP>>
          /\ text0[t] = text[t]
    /\ \E c \in NodeIds :
          node_type[c] = "Comment" /\ Visited(c) /\ text[c] = <<SP, SP, 97, TAB>>
    /\ \E t \in Texts : Visited(t) /\ text[t] # text0[t]

NonWhitespace(s) == SelectSeq(s, LAMBDA c : c \notin {SP, TAB, LF, CR})

\* C19: for every Text node the bytes other than space, tab, '\n' and '\r' are
\* the same, in the same order, before and after the pass, and the payload is
\* never longer than before.
C19_OnlyWhitespaceRemoved ==
    runs >= 1 =>
        \A t \in Texts :
            /\ NonWhitespace(text[t]) = NonWhitespace(text0[t])
            /\ Len(text[t]) <= Len(text0[t])

\* C19 witness: a payload with tabs, newlines and spaces around two letters
\* became shorter and kept the letters.
C19_Witness ==
    /\ runs >= 1
    /\ \E t \in Texts :
          /\ text0[t] = <<SP, SP, 97, TAB, SP>>
          /\ text[t] = <<97>>

====
